---- MODULE Spec2Model ----
(***************************************************************************)
(* Model of the Mixor CLI extraction pipeline (src/Python/mixor_cli.py):   *)
(* main, process_youtube and process_local_file, the output protocol       *)
(* (emit_progress / emit_result) and the files the pipeline creates,       *)
(* moves and deletes under the output root.  The host application runs     *)
(* the CLI once per job; successive jobs share the output root on disk.    *)
(*                                                                         *)
(* Conventions                                                             *)
(*   - None is <<>> and a present value v is <<v>> (NULL / Some).          *)
(*   - A progress fraction is kept in tenths: 0.1 is 1, 1.0 is 10.         *)
(*   - A path is a record [parts, stem, ext]; str(path) is Str(path).      *)
(*   - fs maps every existing file to the number of the job that wrote     *)
(*     its content (0: the file predates the first job).                   *)
(*   - Module imports (torch, yt_dlp, subprocess) are taken to succeed:    *)
(*     the interpreter environment is installed.                           *)
(***************************************************************************)
EXTENDS Integers, Sequences, FiniteSets, TLC

VARIABLES
    pc,            \* position of the running process in the program
    command,       \* args.command
    url,           \* args.url
    file,          \* args.file
    out,           \* the lines written to standard output by this process
    exit,          \* exit status of the process, -1 while it runs
    fs,            \* the files on disk
    fs0,           \* the files on disk when this job started
    jobs,          \* number of jobs started so far
    failed,        \* NULL, or how a stage of this job failed and its message
    device, title, safe_title, duration, audio_file,
    returncode,    \* result.returncode
    stderr,        \* result.stderr
    sepCalls,      \* number of times this job has run the separator
    sepWrote,      \* the stems the separator wrote in this job
    instAfterSep,  \* no_vocals.mp3 existed when the separator returned
    dlCalls,       \* number of times this job has run the downloader
    staged         \* NULL, or the .mp3 files in temp/ when the downloader returned

vars == <<pc, command, url, file, out, exit, fs, fs0, jobs, failed,
          device, title, safe_title, duration, audio_file, returncode, stderr,
          sepCalls, sepWrote, instAfterSep, dlCalls, staged>>

args == <<command, url, file>>
locals == <<device, title, safe_title, duration, audio_file, returncode, stderr>>
sephist == <<sepCalls, sepWrote, instAfterSep>>
dlhist == <<dlCalls, staged>>
hist == <<sepCalls, sepWrote, instAfterSep, dlCalls, staged>>

(***************************************************************************)
(* Bounds and small input sets                                             *)
(***************************************************************************)
MaxJobs == 2

NULL == <<>>
Some(v) == <<v>>

OUT == "/out"
MODEL == "htdemucs_ft"

Urls == {"u1", "u2"}

\* What the downloader reports for a URL: the title, the duration and the
\* name yt-dlp gives the transcoded file in the staging directory.
Video(u) ==
    IF u = "u1" THEN [title |-> <<"a">>, duration |-> Some(180), name |-> <<"a">>]
    ELSE [title |-> <<"b", "!", " ">>, duration |-> NULL, name |-> <<"b">>]

Stderrs == {"CUDA OOM", ""}

Durations == {NULL, Some(180)}

(***************************************************************************)
(* Paths and the file system                                               *)
(***************************************************************************)
Path(parts, stem, ext) == [parts |-> parts, stem |-> stem, ext |-> ext]

RECURSIVE Join(_)
Join(s) == IF Len(s) = 0 THEN ""
           ELSE IF Len(s) = 1 THEN s[1]
           ELSE s[1] \o "/" \o Join(Tail(s))

\* A str held as a sequence of characters, as one string.
RECURSIVE Cat(_)
Cat(cs) == IF Len(cs) = 0 THEN "" ELSE cs[1] \o Cat(Tail(cs))

Str(p) == Join(p.parts) \o "/" \o Cat(p.stem) \o "." \o p.ext

InputFiles == {Path(<<"/in">>, <<"a">>, "wav"), Path(<<"/in">>, <<"b">>, "wav"),
               Path(<<"/in">>, <<"g", "o", "n", "e">>, "wav")}

\* The input files present on disk before the first job.
InitialFiles == {Path(<<"/in">>, <<"a">>, "wav"), Path(<<"/in">>, <<"b">>, "wav")}

output_path == <<OUT>>
temp_dir == <<OUT, "temp">>
instrumentals_dir == <<OUT, "Instrumentals">>
acapellas_dir == <<OUT, "Acapellas">>
model_root == <<OUT, MODEL>>

Exists(f, p) == p \in DOMAIN f

ExistsAt(f, s) == \E p \in DOMAIN f : Str(p) = s

WriteFile(f, p, d) == [q \in DOMAIN f \cup {p} |-> IF q = p THEN d ELSE f[q]]

Remove(f, ps) == [q \in DOMAIN f \ ps |-> f[q]]

IsPrefix(s, t) == Len(s) <= Len(t) /\ SubSeq(t, 1, Len(s)) = s

Glob(f, dir, ext) == {p \in DOMAIN f : p.parts = dir /\ p.ext = ext}

Under(f, dir) == {p \in DOMAIN f : IsPrefix(dir, p.parts)}

\* shutil.move(src, dst) within one file system: rename, replacing dst.
Move(f, src, dst) == Remove(WriteFile(f, dst, f[src]), {src})

\* shutil.rmtree(dir, ignore_errors=True)
RmTree(f, dir) == Remove(f, Under(f, dir))

\* Path.unlink(missing_ok=True)
Unlink(f, p) == Remove(f, {p})

(***************************************************************************)
(* The output protocol                                                     *)
(***************************************************************************)
\* A faulty emit_progress that reports a percentage instead of a fraction.
emit_progress_percent(o, progress, status, step) ==
    Append(o, [type |-> "progress", progress |-> progress * 10,
               status |-> status, step |-> step])

\* emit_progress: one JSON progress line appended to standard output.
emit_progress(o, progress, status, step) ==
    Append(o, [type |-> "progress", progress |-> progress,
               status |-> status, step |-> step])

\* emit_result: one JSON result line appended to standard output.
emit_result(o, success, instrumental_path, vocals_path, t, d, error) ==
    Append(o, [type |-> "result", success |-> success,
               instrumentalPath |-> instrumental_path,
               vocalsPath |-> vocals_path,
               title |-> t, duration |-> d, error |-> error])

\* A faulty failure call that passes the message positionally, so that it
\* lands in instrumental_path: emit_result(False, msg).
emit_failure_positional(o, msg) == emit_result(o, FALSE, Some(msg), NULL, NULL, NULL, NULL)

\* emit_result(False, error=msg): the other parameters keep their defaults.
emit_failure(o, msg) == emit_result(o, FALSE, NULL, NULL, NULL, NULL, Some(msg))

(***************************************************************************)
(* Title sanitization                                                      *)
(***************************************************************************)
AlnumChars == {"a", "b", "g", "o", "n", "e", "0", "1"}

isalnum(c) == c \in AlnumChars

Kept(c) == isalnum(c) \/ c \in {" ", "-", "_"}

RECURSIVE Filter(_)
Filter(cs) == IF Len(cs) = 0 THEN <<>>
              ELSE IF Kept(cs[1]) THEN <<cs[1]>> \o Filter(Tail(cs))
              ELSE Filter(Tail(cs))

Whitespace == {" ", "\t", "\n"}

RECURSIVE rstrip(_)
rstrip(cs) == IF Len(cs) > 0 /\ cs[Len(cs)] \in Whitespace
              THEN rstrip(SubSeq(cs, 1, Len(cs) - 1))
              ELSE cs

\* A faulty Sanitize that strips the trailing whitespace before it filters.
Sanitize_StripFirst(t) == Filter(rstrip(t))

Sanitize(t) == rstrip(Filter(t))

(***************************************************************************)
(* Ways a process ends                                                     *)
(***************************************************************************)
\* return from process_* and main: the interpreter exits with status 0.
Return == pc' = "done" /\ exit' = 0

\* A failure branch: emit_result(False, error=msg); return.
Fail(msg) ==
    /\ out' = emit_failure(out, msg)
    /\ failed' = Some([how |-> "branch", msg |-> msg])
    /\ Return

\* except Exception as e: emit_result(False, error=str(e))
Except(msg) ==
    /\ out' = emit_failure(out, msg)
    /\ failed' = Some([how |-> "raise", msg |-> msg])
    /\ Return

\* An exception raised outside the try block: nothing catches it, the
\* interpreter prints a traceback on standard error and exits with status 1.
Uncaught(msg) ==
    /\ pc' = "done"
    /\ exit' = 1
    /\ failed' = Some([how |-> "raise", msg |-> msg])
    /\ out' = out

(***************************************************************************)
(* The host starts a process for one job                                   *)
(***************************************************************************)
Init ==
    /\ pc = "idle"
    /\ command = "extract_url"
    /\ url = NULL
    /\ file = NULL
    /\ out = <<>>
    /\ exit = -1
    /\ fs = [p \in InitialFiles |-> 0]
    /\ fs0 = [p \in InitialFiles |-> 0]
    /\ jobs = 0
    /\ failed = NULL
    /\ device = NULL
    /\ title = NULL
    /\ safe_title = NULL
    /\ duration = NULL
    /\ audio_file = NULL
    /\ returncode = NULL
    /\ stderr = NULL
    /\ sepCalls = 0
    /\ sepWrote = {}
    /\ instAfterSep = FALSE
    /\ dlCalls = 0
    /\ staged = NULL

StartJob ==
    /\ pc \in {"idle", "done"}
    /\ jobs < MaxJobs
    /\ jobs' = jobs + 1
    /\ \E c \in {"extract_url", "extract_file"} :
         /\ command' = c
         /\ IF c = "extract_url"
            THEN file' = NULL /\ \E u \in {NULL} \cup {Some(x) : x \in Urls} : url' = u
            ELSE url' = NULL /\ \E f \in {NULL} \cup {Some(x) : x \in InputFiles} : file' = f
    /\ pc' = "main"
    /\ out' = <<>>
    /\ exit' = -1
    /\ fs0' = fs
    /\ failed' = NULL
    /\ device' = NULL
    /\ title' = NULL
    /\ safe_title' = NULL
    /\ duration' = NULL
    /\ audio_file' = NULL
    /\ returncode' = NULL
    /\ stderr' = NULL
    /\ sepCalls' = 0
    /\ sepWrote' = {}
    /\ instAfterSep' = FALSE
    /\ dlCalls' = 0
    /\ staged' = NULL
    /\ UNCHANGED fs

\* main: the argument check and the dispatch on args.command.
Main ==
    /\ pc = "main"
    /\ IF command = "extract_url"
       THEN IF url = NULL
            THEN Fail("URL is required")
            ELSE /\ pc' = "yt_mkdir"
                 /\ UNCHANGED <<out, exit, failed>>
       ELSE IF file = NULL
            THEN Fail("File path is required")
            ELSE /\ pc' = "lf_exists"
                 /\ UNCHANGED <<out, exit, failed>>
    /\ UNCHANGED <<args, fs, fs0, jobs, locals, hist>>

(***************************************************************************)
(* Collaborators: the accelerator probe and the separator                  *)
(***************************************************************************)
\* What torch reports: whether CUDA is available, and whether the MPS
\* backend is available, unavailable, or absent from this torch build (then
\* torch.backends.mps raises AttributeError).
MpsStates == {"available", "unavailable", "absent"}

DeviceRaises(cuda, mps) == ~cuda /\ mps = "absent"

SelectDevice(cuda, mps) ==
    IF cuda THEN "cuda" ELSE IF mps = "available" THEN "mps" ELSE "cpu"

Stems == {"no_vocals", "vocals"}

model_dir(output_name) == model_root \o <<Cat(output_name)>>

\* The separator run on `audio`: it writes the stems in `wrote` under
\* <output>/htdemucs_ft/<base name of audio>/.
RECURSIVE Demucs(_, _, _, _)
Demucs(f, audio, wrote, j) ==
    IF wrote = {} THEN f
    ELSE LET s == CHOOSE x \in wrote : TRUE
         IN Demucs(WriteFile(f, Path(model_dir(audio.stem), <<s>>, "mp3"), j),
                   audio, wrote \ {s}, j)

(***************************************************************************)
(* process_youtube                                                         *)
(***************************************************************************)
\* output_path, temp/, Instrumentals/ and Acapellas/ are created before the
\* try block; mkdir raises OSError when a directory cannot be created.
YtMkdirs ==
    /\ pc = "yt_mkdir"
    /\ \E ok \in BOOLEAN :
         IF ok THEN pc' = "yt_device" /\ UNCHANGED <<out, exit, failed>>
         ELSE Uncaught("[Errno 13] Permission denied")
    /\ UNCHANGED <<args, fs, fs0, jobs, locals, hist>>

YtDevice ==
    /\ pc = "yt_device"
    /\ \E cuda \in BOOLEAN, mps \in MpsStates :
         IF DeviceRaises(cuda, mps)
         THEN /\ Uncaught("module 'torch.backends' has no attribute 'mps'")
              /\ UNCHANGED device
         ELSE /\ device' = Some(SelectDevice(cuda, mps))
              /\ pc' = "yt_p_download"
              /\ UNCHANGED <<out, exit, failed>>
    /\ UNCHANGED <<args, fs, fs0, jobs, title, safe_title, duration,
                   audio_file, returncode, stderr, hist>>

YtDownloadProgress == 1

YtProgressDownload ==
    /\ pc = "yt_p_download"
    /\ out' = emit_progress(out, YtDownloadProgress, "Downloading audio...", "download")
    /\ pc' = "yt_download"
    /\ UNCHANGED <<args, exit, fs, fs0, jobs, failed, locals, hist>>

\* ydl.extract_info(url, download=True): raises, or returns the metadata
\* having written (or not) <title>.mp3 into temp/.
YtDownload ==
    /\ pc = "yt_download"
    /\ dlCalls' = dlCalls + 1
    /\ \/ /\ Except("ERROR: Video unavailable")
          /\ UNCHANGED <<fs, title, safe_title, duration, staged>>
       \/ /\ LET v == Video(url[1]) IN
             /\ title' = Some(v.title)
             /\ duration' = v.duration
             /\ safe_title' = Some(Sanitize(v.title))
             /\ \/ fs' = WriteFile(fs, Path(temp_dir, v.name, "mp3"), jobs)
                \/ fs' = fs
          /\ staged' = Some(Glob(fs', temp_dir, "mp3"))
          /\ pc' = "yt_find"
          /\ UNCHANGED <<out, exit, failed>>
    /\ UNCHANGED <<args, fs0, jobs, device, audio_file, returncode, stderr, sephist>>

\* A faulty YtFind that announces the separation before it looks for the
\* downloaded file.
YtFind_LateCheck ==
    /\ pc = "yt_find"
    /\ IF Glob(fs, temp_dir, "mp3") = {}
       THEN /\ out' = emit_failure(
                        emit_progress(out, 3, "Processing with Demucs...", "demucs"),
                        "Download failed - audio file not found")
            /\ failed' = Some([how |-> "branch",
                               msg |-> "Download failed - audio file not found"])
            /\ Return
            /\ UNCHANGED audio_file
       ELSE /\ \E f \in Glob(fs, temp_dir, "mp3") : audio_file' = Some(f)
            /\ pc' = "yt_p_demucs"
            /\ UNCHANGED <<out, exit, failed>>
    /\ UNCHANGED <<args, fs, fs0, jobs, device, title, safe_title, duration,
                   returncode, stderr, hist>>

\* The first .mp3 that temp_dir.glob yields (in no defined order), or the
\* "audio file not found" failure.
YtFind ==
    /\ pc = "yt_find"
    /\ IF Glob(fs, temp_dir, "mp3") = {}
       THEN Fail("Download failed - audio file not found") /\ UNCHANGED audio_file
       ELSE /\ \E f \in Glob(fs, temp_dir, "mp3") : audio_file' = Some(f)
            /\ pc' = "yt_p_demucs"
            /\ UNCHANGED <<out, exit, failed>>
    /\ UNCHANGED <<args, fs, fs0, jobs, device, title, safe_title, duration,
                   returncode, stderr, hist>>

YtDemucsProgress == 3

YtProgressDemucs ==
    /\ pc = "yt_p_demucs"
    /\ out' = emit_progress(out, YtDemucsProgress, "Processing with Demucs...", "demucs")
    /\ pc' = "yt_demucs"
    /\ UNCHANGED <<args, exit, fs, fs0, jobs, failed, locals, hist>>

\* A faulty YtDemucs that never looks at the return code.
YtDemucs_NoReturncodeCheck ==
    /\ pc = "yt_demucs"
    /\ \/ /\ Except("[Errno 12] Cannot allocate memory")
          /\ UNCHANGED <<fs, returncode, stderr, hist>>
       \/ \E rc \in {0, 1}, err \in Stderrs, wrote \in SUBSET Stems :
            /\ fs' = Demucs(fs, audio_file[1], wrote, jobs)
            /\ returncode' = Some(rc)
            /\ stderr' = Some(err)
            /\ sepCalls' = sepCalls + 1
            /\ sepWrote' = wrote
            /\ instAfterSep' =
                 Exists(fs', Path(model_dir(audio_file[1].stem), <<"no_vocals">>, "mp3"))
            /\ pc' = "yt_p_finalize"
            /\ UNCHANGED <<out, exit, failed>>
    /\ UNCHANGED <<args, fs0, jobs, device, title, safe_title, duration, audio_file, dlhist>>

\* subprocess.run of the separator and the check of its return code.
YtDemucs ==
    /\ pc = "yt_demucs"
    /\ \/ /\ Except("[Errno 12] Cannot allocate memory")
          /\ UNCHANGED <<fs, returncode, stderr, hist>>
       \/ \E rc \in {0, 1}, err \in Stderrs, wrote \in SUBSET Stems :
            /\ fs' = Demucs(fs, audio_file[1], wrote, jobs)
            /\ returncode' = Some(rc)
            /\ stderr' = Some(err)
            /\ sepCalls' = sepCalls + 1
            /\ sepWrote' = wrote
            /\ instAfterSep' =
                 Exists(fs', Path(model_dir(audio_file[1].stem), <<"no_vocals">>, "mp3"))
            /\ IF rc # 0
               THEN Fail("Demucs error: " \o err)
               ELSE pc' = "yt_p_finalize" /\ UNCHANGED <<out, exit, failed>>
    /\ UNCHANGED <<args, fs0, jobs, device, title, safe_title, duration, audio_file, dlhist>>

FinalizeProgress == 9

YtProgressFinalize ==
    /\ pc = "yt_p_finalize"
    /\ out' = emit_progress(out, FinalizeProgress, "Finalizing...", "finalize")
    /\ pc' = "yt_check"
    /\ UNCHANGED <<args, exit, fs, fs0, jobs, failed, locals, hist>>

instrumental_file(output_name) == Path(model_dir(output_name), <<"no_vocals">>, "mp3")
vocals_file(output_name) == Path(model_dir(output_name), <<"vocals">>, "mp3")
final_instrumental(output_name) == Path(instrumentals_dir, output_name, "mp3")
\* A faulty final_acapella that points into Instrumentals/.
final_acapella_InInstrumentals(output_name) == Path(instrumentals_dir, output_name, "mp3")
final_acapella(output_name) == Path(acapellas_dir, output_name, "mp3")

\* A faulty YtCheckInstrumental placed after the move of the vocals.
YtCheckInstrumental_AfterVocals ==
    /\ pc = "yt_check"
    /\ IF ~Exists(fs, instrumental_file(audio_file[1].stem))
       THEN /\ fs' = IF Exists(fs, vocals_file(audio_file[1].stem))
                     THEN Move(fs, vocals_file(audio_file[1].stem),
                               final_acapella(audio_file[1].stem))
                     ELSE fs
            /\ Fail("Processing failed - output file not found")
       ELSE pc' = "yt_move_inst" /\ UNCHANGED <<fs, out, exit, failed>>
    /\ UNCHANGED <<args, fs0, jobs, locals, hist>>

YtCheckInstrumental ==
    /\ pc = "yt_check"
    /\ IF ~Exists(fs, instrumental_file(audio_file[1].stem))
       THEN Fail("Processing failed - output file not found")
       ELSE pc' = "yt_move_inst" /\ UNCHANGED <<out, exit, failed>>
    /\ UNCHANGED <<args, fs, fs0, jobs, locals, hist>>

YtMoveInstrumental ==
    /\ pc = "yt_move_inst"
    /\ \/ Except("[Errno 28] No space left on device") /\ UNCHANGED fs
       \/ /\ fs' = Move(fs, instrumental_file(audio_file[1].stem),
                        final_instrumental(audio_file[1].stem))
          /\ pc' = "yt_move_voc"
          /\ UNCHANGED <<out, exit, failed>>
    /\ UNCHANGED <<args, fs0, jobs, locals, hist>>

YtMoveVocals ==
    /\ pc = "yt_move_voc"
    /\ IF Exists(fs, vocals_file(audio_file[1].stem))
       THEN \/ Except("[Errno 28] No space left on device") /\ UNCHANGED fs
            \/ /\ fs' = Move(fs, vocals_file(audio_file[1].stem),
                             final_acapella(audio_file[1].stem))
               /\ pc' = "yt_cleanup"
               /\ UNCHANGED <<out, exit, failed>>
       ELSE pc' = "yt_cleanup" /\ UNCHANGED <<fs, out, exit, failed>>
    /\ UNCHANGED <<args, fs0, jobs, locals, hist>>

\* rmtree of <output>/htdemucs_ft, then unlink of the downloaded audio.
YtCleanup ==
    /\ pc = "yt_cleanup"
    /\ \/ /\ fs' = RmTree(fs, model_root)
          /\ Except("[Errno 13] Permission denied")
       \/ /\ fs' = Unlink(RmTree(fs, model_root), audio_file[1])
          /\ pc' = "yt_p_done"
          /\ UNCHANGED <<out, exit, failed>>
    /\ UNCHANGED <<args, fs0, jobs, locals, hist>>

DoneProgress == 10

YtProgressDone ==
    /\ pc = "yt_p_done"
    /\ out' = emit_progress(out, DoneProgress, "Complete!", "done")
    /\ pc' = "yt_result"
    /\ UNCHANGED <<args, exit, fs, fs0, jobs, failed, locals, hist>>

YtResult ==
    /\ pc = "yt_result"
    /\ out' = emit_result(out, TRUE,
                          Some(Str(final_instrumental(audio_file[1].stem))),
                          Some(Str(final_acapella(audio_file[1].stem))),
                          safe_title, duration, NULL)
    /\ Return
    /\ UNCHANGED <<args, fs, fs0, jobs, failed, locals, hist>>

(***************************************************************************)
(* process_local_file                                                      *)
(***************************************************************************)
\* A faulty LfExists that does not test the input file.
LfExists_NoCheck ==
    /\ pc = "lf_exists"
    /\ pc' = "lf_mkdir"
    /\ UNCHANGED <<args, out, exit, failed, fs, fs0, jobs, locals, hist>>

LfExists ==
    /\ pc = "lf_exists"
    /\ IF ~Exists(fs, file[1])
       THEN Fail("File not found: " \o Str(file[1]))
       ELSE pc' = "lf_mkdir" /\ UNCHANGED <<out, exit, failed>>
    /\ UNCHANGED <<args, fs, fs0, jobs, locals, hist>>

LfMkdirs ==
    /\ pc = "lf_mkdir"
    /\ \E ok \in BOOLEAN :
         IF ok THEN pc' = "lf_device" /\ UNCHANGED <<out, exit, failed>>
         ELSE Uncaught("[Errno 13] Permission denied")
    /\ UNCHANGED <<args, fs, fs0, jobs, locals, hist>>

LfDevice ==
    /\ pc = "lf_device"
    /\ \E cuda \in BOOLEAN, mps \in MpsStates :
         IF DeviceRaises(cuda, mps)
         THEN /\ Uncaught("module 'torch.backends' has no attribute 'mps'")
              /\ UNCHANGED device
         ELSE /\ device' = Some(SelectDevice(cuda, mps))
              /\ pc' = "lf_p_prepare"
              /\ UNCHANGED <<out, exit, failed>>
    /\ UNCHANGED <<args, fs, fs0, jobs, title, safe_title, duration,
                   audio_file, returncode, stderr, hist>>

LfPrepareProgress == 1

LfProgressPrepare ==
    /\ pc = "lf_p_prepare"
    /\ out' = emit_progress(out, LfPrepareProgress, "Preparing audio...", "prepare")
    /\ pc' = "lf_prepare"
    /\ UNCHANGED <<args, exit, fs, fs0, jobs, failed, locals, hist>>

\* title = input_file.stem; get_audio_duration returns a number, or None
\* when ffprobe fails: it never raises.
LfPrepare ==
    /\ pc = "lf_prepare"
    /\ title' = Some(file[1].stem)
    /\ \E d \in Durations : duration' = d
    /\ pc' = "lf_p_demucs"
    /\ UNCHANGED <<args, out, exit, fs, fs0, jobs, failed, device, safe_title,
                   audio_file, returncode, stderr, hist>>

LfDemucsProgress == 2

LfProgressDemucs ==
    /\ pc = "lf_p_demucs"
    /\ out' = emit_progress(out, LfDemucsProgress, "Processing with Demucs...", "demucs")
    /\ pc' = "lf_demucs"
    /\ UNCHANGED <<args, exit, fs, fs0, jobs, failed, locals, hist>>

\* A faulty LfDemucs that reports the captured stderr without its prefix.
LfDemucs_BareStderr ==
    /\ pc = "lf_demucs"
    /\ \/ /\ Except("[Errno 12] Cannot allocate memory")
          /\ UNCHANGED <<fs, returncode, stderr, hist>>
       \/ \E rc \in {0, 1}, err \in Stderrs, wrote \in SUBSET Stems :
            /\ fs' = Demucs(fs, file[1], wrote, jobs)
            /\ returncode' = Some(rc)
            /\ stderr' = Some(err)
            /\ sepCalls' = sepCalls + 1
            /\ sepWrote' = wrote
            /\ instAfterSep' = Exists(fs', instrumental_file(file[1].stem))
            /\ IF rc # 0
               THEN Fail(err)
               ELSE pc' = "lf_p_finalize" /\ UNCHANGED <<out, exit, failed>>
    /\ UNCHANGED <<args, fs0, jobs, device, title, safe_title, duration, audio_file, dlhist>>

LfDemucs ==
    /\ pc = "lf_demucs"
    /\ \/ /\ Except("[Errno 12] Cannot allocate memory")
          /\ UNCHANGED <<fs, returncode, stderr, hist>>
       \/ \E rc \in {0, 1}, err \in Stderrs, wrote \in SUBSET Stems :
            /\ fs' = Demucs(fs, file[1], wrote, jobs)
            /\ returncode' = Some(rc)
            /\ stderr' = Some(err)
            /\ sepCalls' = sepCalls + 1
            /\ sepWrote' = wrote
            /\ instAfterSep' = Exists(fs', instrumental_file(file[1].stem))
            /\ IF rc # 0
               THEN Fail("Demucs error: " \o err)
               ELSE pc' = "lf_p_finalize" /\ UNCHANGED <<out, exit, failed>>
    /\ UNCHANGED <<args, fs0, jobs, device, title, safe_title, duration, audio_file, dlhist>>

\* A faulty LfProgressFinalize that forgets to emit the milestone.
LfProgressFinalize_Silent ==
    /\ pc = "lf_p_finalize"
    /\ pc' = "lf_check"
    /\ UNCHANGED <<args, out, exit, fs, fs0, jobs, failed, locals, hist>>

LfProgressFinalize ==
    /\ pc = "lf_p_finalize"
    /\ out' = emit_progress(out, FinalizeProgress, "Finalizing...", "finalize")
    /\ pc' = "lf_check"
    /\ UNCHANGED <<args, exit, fs, fs0, jobs, failed, locals, hist>>

LfCheckInstrumental ==
    /\ pc = "lf_check"
    /\ IF ~Exists(fs, instrumental_file(file[1].stem))
       THEN Fail("Processing failed - output file not found")
       ELSE pc' = "lf_move_inst" /\ UNCHANGED <<out, exit, failed>>
    /\ UNCHANGED <<args, fs, fs0, jobs, locals, hist>>

LfMoveInstrumental ==
    /\ pc = "lf_move_inst"
    /\ \/ Except("[Errno 28] No space left on device") /\ UNCHANGED fs
       \/ /\ fs' = Move(fs, instrumental_file(file[1].stem),
                        final_instrumental(file[1].stem))
          /\ pc' = "lf_move_voc"
          /\ UNCHANGED <<out, exit, failed>>
    /\ UNCHANGED <<args, fs0, jobs, locals, hist>>

LfMoveVocals ==
    /\ pc = "lf_move_voc"
    /\ IF Exists(fs, vocals_file(file[1].stem))
       THEN \/ Except("[Errno 28] No space left on device") /\ UNCHANGED fs
            \/ /\ fs' = Move(fs, vocals_file(file[1].stem),
                             final_acapella(file[1].stem))
               /\ pc' = "lf_cleanup"
               /\ UNCHANGED <<out, exit, failed>>
       ELSE pc' = "lf_cleanup" /\ UNCHANGED <<fs, out, exit, failed>>
    /\ UNCHANGED <<args, fs0, jobs, locals, hist>>

\* A faulty LfCleanup that removes the whole output root.
LfCleanup_RmOutput ==
    /\ pc = "lf_cleanup"
    /\ fs' = RmTree(fs, output_path)
    /\ pc' = "lf_p_done"
    /\ UNCHANGED <<args, out, exit, fs0, jobs, failed, locals, hist>>

\* rmtree of <output>/htdemucs_ft; errors are ignored, so it never raises.
LfCleanup ==
    /\ pc = "lf_cleanup"
    /\ fs' = RmTree(fs, model_root)
    /\ pc' = "lf_p_done"
    /\ UNCHANGED <<args, out, exit, fs0, jobs, failed, locals, hist>>

LfProgressDone ==
    /\ pc = "lf_p_done"
    /\ out' = emit_progress(out, DoneProgress, "Complete!", "done")
    /\ pc' = "lf_result"
    /\ UNCHANGED <<args, exit, fs, fs0, jobs, failed, locals, hist>>

LfResult ==
    /\ pc = "lf_result"
    /\ out' = emit_result(out, TRUE,
                          Some(Str(final_instrumental(file[1].stem))),
                          Some(Str(final_acapella(file[1].stem))),
                          title, duration, NULL)
    /\ Return
    /\ UNCHANGED <<args, fs, fs0, jobs, failed, locals, hist>>

(***************************************************************************)
(* The specification                                                       *)
(***************************************************************************)
Next ==
    \/ StartJob
    \/ Main
    \/ YtMkdirs
    \/ YtDevice
    \/ YtProgressDownload
    \/ YtDownload
    \/ YtFind
    \/ YtProgressDemucs
    \/ YtDemucs
    \/ YtProgressFinalize
    \/ YtCheckInstrumental
    \/ YtMoveInstrumental
    \/ YtMoveVocals
    \/ YtCleanup
    \/ YtProgressDone
    \/ YtResult
    \/ LfExists
    \/ LfMkdirs
    \/ LfDevice
    \/ LfProgressPrepare
    \/ LfPrepare
    \/ LfProgressDemucs
    \/ LfDemucs
    \/ LfProgressFinalize
    \/ LfCheckInstrumental
    \/ LfMoveInstrumental
    \/ LfMoveVocals
    \/ LfCleanup
    \/ LfProgressDone
    \/ LfResult

Spec == Init /\ [][Next]_vars

(***************************************************************************)
(* Vocabulary of the properties                                            *)
(***************************************************************************)
ResultIdx == {i \in 1..Len(out) : out[i].type = "result"}
ProgressIdx == {i \in 1..Len(out) : out[i].type = "progress"}
SuccessIdx == {i \in ResultIdx : out[i].success}
FailureIdx == {i \in ResultIdx : ~out[i].success}

\* The files of Instrumentals/ and Acapellas/ with their contents.
DestFiles(f) ==
    [p \in {q \in DOMAIN f : q.parts \in {instrumentals_dir, acapellas_dir}} |-> f[p]]

(***************************************************************************)
(* Properties                                                              *)
(***************************************************************************)
\* C1: every job writes exactly one Result line, and no line follows it.
\* At any moment there is at most one Result and it is the last line; a
\* process that has ended has written one.
C1_ExactlyOneResultLast ==
    /\ Cardinality(ResultIdx) <= 1
    /\ \A i \in ResultIdx : i = Len(out)
    /\ pc = "done" => Cardinality(ResultIdx) = 1

\* C2: a success Result is emitted only if the separator returned 0 and
\* no_vocals.mp3 existed under <output>/htdemucs_ft/<base name>/ when the
\* separator returned.
C2_SuccessOnlyAfterCleanSeparation ==
    \A i \in SuccessIdx :
        sepCalls >= 1 /\ returncode = Some(0) /\ instAfterSep

C2_Witness ==
    /\ pc = "done"
    /\ command = "extract_url"
    /\ SuccessIdx # {}
    /\ returncode = Some(0)

\* C3: a success Result has a non-null instrumentalPath, a file exists at
\* exactly that path when it is emitted, and its error is null.
C3_SuccessPathExists ==
    \A i \in SuccessIdx :
        /\ out[i].instrumentalPath # NULL
        /\ ExistsAt(fs, out[i].instrumentalPath[1])
        /\ out[i].error = NULL

C3_Witness ==
    /\ pc = "done"
    /\ command = "extract_file"
    /\ \E i \in SuccessIdx : out[i].instrumentalPath = Some("/out/Instrumentals/a.mp3")

\* C4: a failure Result has null instrumentalPath, vocalsPath, title and
\* duration, and a non-null error.
C4_FailureFieldsNull ==
    \A i \in FailureIdx :
        /\ out[i].instrumentalPath = NULL
        /\ out[i].vocalsPath = NULL
        /\ out[i].title = NULL
        /\ out[i].duration = NULL
        /\ out[i].error # NULL

\* A failure emitted after the title and the duration were known.
C4_Witness ==
    /\ FailureIdx # {}
    /\ title # NULL
    /\ duration # NULL

\* C5: when the separator exits 0 and writes the instrumental but no
\* vocals, and nothing else fails, the job ends with a success Result whose
\* vocalsPath is null.
C5_MissingVocalsNullPath ==
    (pc = "done" /\ returncode = Some(0) /\ sepWrote = {"no_vocals"} /\ failed = NULL)
        => \E i \in SuccessIdx : out[i].vocalsPath = NULL

\* C6: every progress value lies in [0,1] (0..10 tenths) and the progress
\* values of a job never decrease.
C6_ProgressMonotone ==
    \A i \in ProgressIdx :
        /\ out[i].progress >= 0
        /\ out[i].progress <= 10
        /\ \A j \in ProgressIdx : i < j => out[i].progress <= out[j].progress

C6_Witness ==
    /\ pc = "done"
    /\ Cardinality(ProgressIdx) = 4

\* C7: every exception raised by a stage of the job becomes a single failure
\* Result carrying the exception's message, and the process exits with
\* status 0.
C7_ExceptionsReported ==
    (pc = "done" /\ failed # NULL /\ failed[1].how = "raise")
        => /\ exit = 0
           /\ Cardinality(ResultIdx) = 1
           /\ \A i \in ResultIdx :
                ~out[i].success /\ out[i].error = Some(failed[1].msg)

\* C8: once a stage has failed the job is over (no later stage runs, no
\* further progress line) and exactly one failure Result has been emitted,
\* as the last line.
C8_FailureShortCircuits ==
    failed # NULL
        => /\ pc = "done"
           /\ Cardinality(ResultIdx) = 1
           /\ \A i \in ResultIdx : ~out[i].success /\ i = Len(out)

\* C9: when the separator exits with a non-zero code the job emits a
\* failure Result whose error is "Demucs error: " followed by the captured
\* stderr, and Instrumentals/ and Acapellas/ hold the same files as before
\* the job.
C9_SeparatorFailure ==
    (returncode # NULL /\ returncode # Some(0))
        => /\ pc = "done"
           /\ Cardinality(ResultIdx) = 1
           /\ \A i \in ResultIdx :
                ~out[i].success /\ out[i].error = Some("Demucs error: " \o stderr[1])
           /\ DestFiles(fs) = DestFiles(fs0)

\* The separator wrote both stems and still exited 1, in a job that follows
\* one which filled the destination folders.
C9_Witness ==
    /\ pc = "done"
    /\ returncode = Some(1)
    /\ stderr = Some("CUDA OOM")
    /\ sepWrote = Stems
    /\ DOMAIN DestFiles(fs0) # {}

\* C10: in file mode, when --file names a path that does not exist, the
\* whole output is one failure Result "File not found: <path>": no progress
\* line is emitted and the separator is never run.
C10_MissingFile ==
    (command = "extract_file" /\ file # NULL /\ ~Exists(fs, file[1]) /\ pc # "main")
        => /\ ProgressIdx = {}
           /\ sepCalls = 0
           /\ pc \in {"lf_exists", "done"}
           /\ pc = "done" => out = emit_failure(<<>>, "File not found: " \o Str(file[1]))

C10_Witness ==
    /\ pc = "done"
    /\ command = "extract_file"
    /\ file = Some(Path(<<"/in">>, <<"g", "o", "n", "e">>, "wav"))
    /\ Len(out) = 1

\* C11: in URL mode, when the downloader returns without error and temp/
\* holds no .mp3, the job emits the failure Result "Download failed - audio
\* file not found", never runs the separator, and its only progress line is
\* the download milestone (0.1).
C11_DownloadedNothing ==
    (command = "extract_url" /\ staged = Some({}))
        => /\ pc \in {"yt_find", "done"}
           /\ sepCalls = 0
           /\ Cardinality(ProgressIdx) = 1
           /\ \A i \in ProgressIdx : out[i].step = "download" /\ out[i].progress = 1
           /\ pc = "done" =>
                /\ Len(out) = 2
                /\ out[2] = [type |-> "result", success |-> FALSE,
                             instrumentalPath |-> NULL, vocalsPath |-> NULL,
                             title |-> NULL, duration |-> NULL,
                             error |-> Some("Download failed - audio file not found")]

C11_Witness ==
    /\ pc = "done"
    /\ command = "extract_url"
    /\ dlCalls = 1
    /\ staged = Some({})
    /\ FailureIdx # {}

\* C12: after a job that ends with a success Result, no file remains under
\* <output>/temp/ or under <output>/htdemucs_ft/, whatever jobs ran before
\* it against the same output root.
C12_NoStagingAfterSuccess ==
    (pc = "done" /\ SuccessIdx # {})
        => Under(fs, temp_dir) = {} /\ Under(fs, model_root) = {}

\* C13: when a job has ended, with a success or a failure Result, nothing
\* that this job wrote remains under <output>/temp/ or <output>/htdemucs_ft/.
C13_StagingReclaimed ==
    pc = "done"
        => \A p \in Under(fs, temp_dir) \cup Under(fs, model_root) : fs[p] # jobs

\* The audio file this job handed to the separator.
SeparatedAsset == IF command = "extract_file" THEN file[1] ELSE audio_file[1]

\* The contents of the files whose path, as a string, is s.
ContentAt(f, s) == {f[p] : p \in {q \in DOMAIN f : Str(q) = s}}

\* C14: on a successful job whose separator wrote both stems under
\* <output>/htdemucs_ft/<base name>/, the instrumental written by this job
\* is at <output>/Instrumentals/<base name>.mp3 and the vocals at
\* <output>/Acapellas/<base name>.mp3, the Result's instrumentalPath and
\* vocalsPath are those two paths, and in file mode the Result's title is
\* the base name of the input file.
C14_StemsPlaced ==
    (SuccessIdx # {} /\ sepWrote = Stems)
        => LET base == Cat(SeparatedAsset.stem)
               inst == OUT \o "/Instrumentals/" \o base \o ".mp3"
               voc == OUT \o "/Acapellas/" \o base \o ".mp3"
           IN /\ ContentAt(fs, inst) = {jobs}
              /\ ContentAt(fs, voc) = {jobs}
              /\ \A i \in SuccessIdx :
                   /\ out[i].instrumentalPath = Some(inst)
                   /\ out[i].vocalsPath = Some(voc)
                   /\ command = "extract_file" => out[i].title = Some(file[1].stem)

\* A success in file mode that replaced stems left by an earlier job.
C14_Witness ==
    /\ pc = "done"
    /\ command = "extract_file"
    /\ SuccessIdx # {}
    /\ sepWrote = Stems
    /\ jobs = 2
    /\ ContentAt(fs0, "/out/Instrumentals/b.mp3") = {1}
    /\ ContentAt(fs, "/out/Acapellas/b.mp3") = {2}

\* The base name of the job's own source: the input file, or the file the
\* downloader writes for the job's URL.
OwnName == IF command = "extract_file" THEN file[1].stem ELSE Video(url[1]).name

\* The files of Instrumentals/ and Acapellas/ that this job has created,
\* replaced or removed so far.
DestChanged ==
    {p \in DOMAIN DestFiles(fs) \cup DOMAIN DestFiles(fs0) :
        \/ p \notin DOMAIN fs
        \/ p \notin DOMAIN fs0
        \/ fs[p] # fs0[p]}

\* C15: in any sequence of jobs on one output root, a job creates or
\* replaces in Instrumentals/ and Acapellas/ only files named <its own
\* source base name>.mp3 and leaves every other file there unchanged.
C15_OnlyOwnNames ==
    \A p \in DestChanged : p.stem = OwnName /\ p.ext = "mp3"

(***************************************************************************)
(* Title sanitization on its own: every title of at most MaxTitleLen       *)
(* characters is sanitized, and the sanitized title is sanitized again.    *)
(***************************************************************************)
MaxTitleLen == 3

TitleChars == {"a", "0", " ", "-", "!", "\t"}

Titles == UNION {[1..n -> TitleChars] : n \in 0..MaxTitleLen}

SanInit ==
    /\ pc = "san"
    /\ title \in {Some(t) : t \in Titles}
    /\ safe_title = NULL
    /\ command = "extract_url"
    /\ url = NULL
    /\ file = NULL
    /\ out = <<>>
    /\ exit = -1
    /\ fs = [p \in InitialFiles |-> 0]
    /\ fs0 = [p \in InitialFiles |-> 0]
    /\ jobs = 0
    /\ failed = NULL
    /\ device = NULL
    /\ duration = NULL
    /\ audio_file = NULL
    /\ returncode = NULL
    /\ stderr = NULL
    /\ sepCalls = 0
    /\ sepWrote = {}
    /\ instAfterSep = FALSE
    /\ dlCalls = 0
    /\ staged = NULL

\* safe_title = sanitized title
SanitizeTitle ==
    /\ pc = "san"
    /\ safe_title' = Some(Sanitize(title[1]))
    /\ pc' = "san_once"
    /\ UNCHANGED <<args, out, exit, fs, fs0, jobs, failed, device, title, duration,
                   audio_file, returncode, stderr, hist>>

\* The same expression applied to the sanitized title.
SanitizeAgain ==
    /\ pc = "san_once"
    /\ safe_title' = Some(Sanitize(safe_title[1]))
    /\ pc' = "san_twice"
    /\ UNCHANGED <<args, out, exit, fs, fs0, jobs, failed, device, title, duration,
                   audio_file, returncode, stderr, hist>>

SanNext == SanitizeTitle \/ SanitizeAgain

SanSpec == SanInit /\ [][SanNext]_vars

\* C16: title sanitization is idempotent: sanitizing the sanitized title
\* gives the sanitized title.
C16_SanitizeIdempotent ==
    pc = "san_twice" => safe_title = Some(Sanitize(title[1]))

\* A title that loses a character and its trailing blank.
C16_Witness ==
    /\ pc = "san_twice"
    /\ title = Some(<<"a", "!", " ">>)
    /\ safe_title = Some(<<"a">>)

IsProgress(l) == l.type = "progress"

\* The <<step, progress>> pairs of the progress lines, in output order.
ProgressSteps ==
    LET ps == SelectSeq(out, IsProgress)
    IN [i \in 1..Len(ps) |-> <<ps[i].step, ps[i].progress>>]

ExpectedSteps(c) ==
    IF c = "extract_url"
    THEN << <<"download", 1>>, <<"demucs", 3>>, <<"finalize", 9>>, <<"done", 10>> >>
    ELSE << <<"prepare", 1>>, <<"demucs", 2>>, <<"finalize", 9>>, <<"done", 10>> >>

Emitted(step) == \E i \in ProgressIdx : out[i].step = step

\* C17: the emitted progress steps are a prefix of download(0.1),
\* demucs(0.3), finalize(0.9), done(1.0) in URL mode and of prepare(0.1),
\* demucs(0.2), finalize(0.9), done(1.0) in file mode; the download
\* milestone is out before the downloader is invoked, the demucs milestone
\* before the separator is invoked, the finalize milestone before a stem
\* file is moved.
C17_MilestonesBeforeWork ==
    /\ IsPrefix(ProgressSteps, ExpectedSteps(command))
    /\ dlCalls > 0 => Emitted("download")
    /\ sepCalls > 0 => Emitted("demucs")
    /\ DestChanged # {} => Emitted("finalize")

\* The instrumental has just been moved, in a job that downloaded and
\* separated.
C17_Witness ==
    /\ pc = "yt_move_voc"
    /\ dlCalls = 1
    /\ sepCalls = 1
    /\ DestChanged # {}

\* C18: when the separator exits 0 but no_vocals.mp3 is missing from
\* <output>/htdemucs_ft/<base name>/, the job emits the failure Result
\* "Processing failed - output file not found", moves nothing into
\* Instrumentals/ or Acapellas/ (not even a vocals file that exists) and
\* never emits the done milestone.
C18_MissingInstrumental ==
    (returncode = Some(0) /\ ~instAfterSep)
        => /\ pc \in {"yt_p_finalize", "yt_check", "lf_p_finalize", "lf_check", "done"}
           /\ DestFiles(fs) = DestFiles(fs0)
           /\ ~Emitted("done")
           /\ pc = "done" =>
                /\ Cardinality(ResultIdx) = 1
                /\ out[Len(out)] = [type |-> "result", success |-> FALSE,
                                    instrumentalPath |-> NULL, vocalsPath |-> NULL,
                                    title |-> NULL, duration |-> NULL,
                                    error |-> Some("Processing failed - output file not found")]

\* The separator wrote the vocals only.
C18_Witness ==
    /\ pc = "done"
    /\ returncode = Some(0)
    /\ sepWrote = {"vocals"}
    /\ ~instAfterSep
    /\ Under(fs, model_root) # {}

\* C19: in URL mode, in any sequence of jobs on one output root, the audio
\* file handed to the separator, whose base name names the final stems, is
\* the file the current job downloaded and not an .mp3 an earlier job left
\* in <output>/temp/.
C19_SeparatesOwnDownload ==
    (command = "extract_url" /\ audio_file # NULL)
        => /\ audio_file[1].stem = OwnName
           /\ pc \in {"yt_p_demucs", "yt_demucs"} =>
                Exists(fs, audio_file[1]) /\ fs[audio_file[1]] = jobs

\* C20: when a job ends with a failure Result, whatever failed, the files of
\* Instrumentals/ and Acapellas/ are exactly those of the start of the job.
C20_FailureLeavesDestinations ==
    (pc = "done" /\ FailureIdx # {}) => DestFiles(fs) = DestFiles(fs0)

====
